---- MODULE Spec2Model ----
(***************************************************************************)
(* Humane Tracker TUI (src/humane-cli/humane_cli.py): the HumaneData       *)
(* accessor over a loaded backup snapshot and the Textual screen stack     *)
(* (CategoriesScreen -> HabitsScreen -> EntriesScreen, plus HelpScreen).   *)
(*                                                                         *)
(* Python strings are sequences of code points, so that ordering ("<" on   *)
(* str), str.capitalize() and str(int) are computed as Python computes     *)
(* them.  A JSON object is a record whose DOMAIN is the set of keys that   *)
(* are present; dict.get(k, d) is Get.                                     *)
(***************************************************************************)
EXTENDS Integers, Sequences, FiniteSets, TLC

VARIABLES data,      \* HumaneData.data: the parsed snapshot
          habits,    \* HumaneData.habits: id -> habit
          entries,   \* HumaneData.entries
          stack,     \* the app's screen stack above Textual's blank base screen
          status,    \* "running", "exited" (App.exit) or "crashed" (unhandled exception)
          result,    \* the value returned by the last accessor query
          ret,       \* history: ret[i] is the stack as it was when stack[i] was pushed
          last,      \* history: the handler that ran last
          closed     \* history: the screen the last step popped, as it was mounted

vars == <<data, habits, entries, stack, status, result, ret, last, closed>>

---------------------------------------------------------------------------
(* Bounds of the model *)
MaxHabits == 2
MaxEntries == 2

---------------------------------------------------------------------------
(* Python values *)

\* None, as returned by dict.get(k) for an absent key; equal to no str
None == << -1 >>

\* ""
EmptyStr == << >>

\* "uncategorized"
uncategorized == <<117, 110, 99, 97, 116, 101, 103, 111, 114, 105, 122, 101, 100>>

\* "Unknown"
Unknown == <<85, 110, 107, 110, 111, 119, 110>>

\* "No entries"
NoEntries == <<78, 111, 32, 101, 110, 116, 114, 105, 101, 115>>

\* "-"
Dash == <<45>>

\* dict.get(key, default)
Get(d, key, default) == IF key \in DOMAIN d THEN d[key] ELSE default

Min(a, b) == IF a <= b THEN a ELSE b

Max(a, b) == IF a >= b THEN a ELSE b

\* s < t on str: lexicographic by code point, a proper prefix being smaller
RECURSIVE StrLess(_, _)
StrLess(s, t) ==
    IF t = << >> THEN FALSE
    ELSE IF s = << >> THEN TRUE
    ELSE IF s[1] # t[1] THEN s[1] < t[1]
    ELSE StrLess(Tail(s), Tail(t))

StrLeq(s, t) == s = t \/ StrLess(s, t)

Upper(c) == IF c \in 97..122 THEN c - 32 ELSE c

Lower(c) == IF c \in 65..90 THEN c + 32 ELSE c

\* str.capitalize(): first character upper-cased, the rest lower-cased
Capitalize(s) ==
    [i \in 1..Len(s) |-> IF i = 1 THEN Upper(s[i]) ELSE Lower(s[i])]

\* str(n) for an int n >= 0: its decimal digits
RECURSIVE Str(_)
Str(n) == IF n < 10 THEN <<48 + n>> ELSE Str(n \div 10) \o <<48 + (n % 10)>>

\* s[:10]
Slice10(s) == SubSeq(s, 1, Min(10, Len(s)))

\* The stable ascending order of the positions 1..Len(keys) by "<" on keys:
\* position x is inserted after every position whose key is not greater
RECURSIVE InsertAscending(_, _, _)
InsertAscending(order, x, keys) ==
    IF order = << >> THEN <<x>>
    ELSE IF StrLess(keys[x], keys[order[Len(order)]])
         THEN Append(InsertAscending(SubSeq(order, 1, Len(order) - 1), x, keys),
                     order[Len(order)])
         ELSE Append(order, x)

RECURSIVE AscendingOrder(_, _)
AscendingOrder(n, keys) ==
    IF n = 0 THEN << >> ELSE InsertAscending(AscendingOrder(n - 1, keys), n, keys)

\* sorted(seq, key=...) where keys[i] is the key of seq[i]
Sorted(seq, keys) ==
    LET order == AscendingOrder(Len(seq), keys)
    IN  [i \in 1..Len(seq) |-> seq[order[i]]]

\* The stable descending order of the positions: position x is inserted after
\* every position whose key is not smaller
RECURSIVE InsertDescending(_, _, _)
InsertDescending(order, x, keys) ==
    IF order = << >> THEN <<x>>
    ELSE IF StrLess(keys[order[Len(order)]], keys[x])
         THEN Append(InsertDescending(SubSeq(order, 1, Len(order) - 1), x, keys),
                     order[Len(order)])
         ELSE Append(order, x)

RECURSIVE DescendingOrder(_, _)
DescendingOrder(n, keys) ==
    IF n = 0 THEN << >> ELSE InsertDescending(DescendingOrder(n - 1, keys), n, keys)

\* sorted(seq, key=..., reverse=True) where keys[i] is the key of seq[i]
\* sorted ascending, then reversed: entries of equal keys change places
SortedThenReversed(seq, keys) ==
    LET ascending == Sorted(seq, keys)
    IN  [i \in 1..Len(seq) |-> ascending[Len(seq) + 1 - i]]

SortedReverse(seq, keys) ==
    LET order == DescendingOrder(Len(seq), keys)
    IN  [i \in 1..Len(seq) |-> seq[order[i]]]

RECURSIVE SumSeq(_)
SumSeq(s) == IF s = << >> THEN 0 ELSE s[1] + SumSeq(Tail(s))

---------------------------------------------------------------------------
(* The snapshots the model loads *)

\* habit ids "h1", "h2"
HabitIds == { <<104, 49>>, <<104, 50>> }

\* "h3", an id no habit has
UnknownId == <<104, 51>>

\* the habit name "B"
HabitNames == { <<66>> }

\* the category "fit"
CategoryNames == { <<102, 105, 116>> }

WeeklyTargets == {3}

\* entry dates "2025-11-27", "2025-11-28T10:00:00Z"
EntryDates == { <<50, 48, 50, 53, 45, 49, 49, 45, 50, 55>>,
                <<50, 48, 50, 53, 45, 49, 49, 45, 50, 56, 84, 49, 48, 58, 48, 48, 58, 48, 48, 90>> }

\* the habit objects that state their targetPerWeek: "id" is always present,
\* "name" and "category" may be absent
HabitObjectsWithTarget ==
    [id : HabitIds, targetPerWeek : WeeklyTargets]
    \cup [id : HabitIds, name : HabitNames, targetPerWeek : WeeklyTargets]
    \cup [id : HabitIds, category : CategoryNames, targetPerWeek : WeeklyTargets]
    \cup [id : HabitIds, name : HabitNames, category : CategoryNames,
          targetPerWeek : WeeklyTargets]

\* a habit object: every key but "id" may be absent
HabitObjects ==
    HabitObjectsWithTarget
    \cup [id : HabitIds]
    \cup [id : HabitIds, name : HabitNames]
    \cup [id : HabitIds, category : CategoryNames]
    \cup [id : HabitIds, name : HabitNames, category : CategoryNames]

SeqsUpTo(S, n) == UNION { [1..k -> S] : k \in 0..n }

\* the entry objects at position i of the "entries" list, "id" being "e<i>"
\* and "value" being i
EntryObjectsAt(i, habitIds, dates) ==
    { [id |-> <<101, 48 + i>>, habitId |-> h, date |-> d, value |-> i] :
          h \in habitIds, d \in dates }

\* the "entries" lists of up to MaxEntries entries
EntryLists(habitIds, dates) ==
    UNION { { es \in [1..k -> UNION { EntryObjectsAt(i, habitIds, dates) : i \in 1..k }] :
                  \A i \in 1..k : es[i] \in EntryObjectsAt(i, habitIds, dates) } :
            k \in 0..MaxEntries }

\* the parsed JSON documents made of these lists; the "habits" and the
\* "entries" key may be absent
SnapshotsOf(habitLists, entryLists) ==
    { [version |-> 1, habits |-> hs, entries |-> es] : hs \in habitLists, es \in entryLists }
    \cup { [version |-> 1, habits |-> hs] : hs \in habitLists }
    \cup { [version |-> 1, entries |-> es] : es \in entryLists }
    \cup { [version |-> 1] }

\* the snapshots the queries are called on: any habit objects; entries of
\* habit "h1" and of the id no habit has, all of one date
Snapshots ==
    SnapshotsOf(SeqsUpTo(HabitObjects, MaxHabits),
                EntryLists({ <<104, 49>>, UnknownId },
                           { <<50, 48, 50, 53, 45, 49, 49, 45, 50, 55>> }))

\* the snapshots the screens are opened on: habits that state their
\* targetPerWeek; entries of habit "h1", of either date
NavSnapshots ==
    SnapshotsOf(SeqsUpTo(HabitObjectsWithTarget, MaxHabits),
                EntryLists({ <<104, 49>> }, EntryDates))

---------------------------------------------------------------------------
(* class HumaneData *)

\* self.data.get("habits", [])
HabitList(d) == Get(d, "habits", << >>)

\* the id map that keeps the first habit of each id
HabitsByIdFirst(d) ==
    LET hs == HabitList(d)
    IN  [i \in { hs[k].id : k \in 1..Len(hs) } |->
            hs[CHOOSE k \in 1..Len(hs) :
                   /\ hs[k].id = i
                   /\ \A m \in 1..(k - 1) : hs[m].id # i]]

\* {h["id"]: h for h in self.data.get("habits", [])}: a later habit replaces
\* an earlier one with the same id
HabitsById(d) ==
    LET hs == HabitList(d)
    IN  [i \in { hs[k].id : k \in 1..Len(hs) } |->
            hs[CHOOSE k \in 1..Len(hs) :
                   /\ hs[k].id = i
                   /\ \A m \in (k + 1)..Len(hs) : hs[m].id # i]]

\* self.data.get("entries", [])
EntryList(d) == Get(d, "entries", << >>)

\* habit.get("category", "uncategorized")
GroupKey(h) == Get(h, "category", uncategorized)

\* the keys of the defaultdict in order of first insertion
RECURSIVE GroupKeys(_)
GroupKeys(hs) ==
    IF hs = << >> THEN << >>
    ELSE LET before == GroupKeys(SubSeq(hs, 1, Len(hs) - 1))
             k == GroupKey(hs[Len(hs)])
         IN  IF \E i \in 1..Len(before) : before[i] = k THEN before
             ELSE Append(before, k)

\* get_categories(): the dict as its items (category, habits) in insertion order
get_categories(d) ==
    LET hs == HabitList(d)
        keys == GroupKeys(hs)
    IN  [i \in 1..Len(keys) |->
            <<keys[i], SelectSeq(hs, LAMBDA h : GroupKey(h) = keys[i])>>]

\* h.get("category") == category
InCategory(h, category) == Get(h, "category", None) = category

\* every habit of the snapshot, whatever the category asked for
get_habits_by_category_unfiltered(d, category) == HabitList(d)

get_habits_by_category(d, category) ==
    SelectSeq(HabitList(d), LAMBDA h : InCategory(h, category))

\* e.get("habitId") == habit_id
ForHabit(e, habit_id) == Get(e, "habitId", None) = habit_id

\* get_entries_for_habit() with the filter dropped
get_entries_unfiltered(es, habit_id) == es

get_entries_for_habit(es, habit_id) ==
    SelectSeq(es, LAMBDA e : ForHabit(e, habit_id))

\* get_habit_name() with self.habits[habit_id]["name"] in mind: nothing to
\* fall back on for an id that is not there
get_habit_name_no_default(byId, habit_id) ==
    IF habit_id \in DOMAIN byId THEN Get(byId[habit_id], "name", Unknown) ELSE EmptyStr

get_habit_name(byId, habit_id) ==
    IF habit_id \in DOMAIN byId THEN Get(byId[habit_id], "name", Unknown) ELSE Unknown

\* sum(h.get("targetPerWeek", 0) for h in habits)
TotalTarget(hs) == SumSeq([i \in 1..Len(hs) |-> Get(hs[i], "targetPerWeek", 0)])

\* one tuple of get_category_stats()
StatsRow(item) == <<item[1], Len(item[2]), TotalTarget(item[2])>>

\* get_category_stats() without the sorted(): the tuples in insertion order
get_category_stats_unsorted(d) ==
    LET items == get_categories(d)
    IN  [i \in 1..Len(items) |-> StatsRow(items[i])]

get_category_stats(d) ==
    LET items == get_categories(d)
        ordered == Sorted(items, [i \in 1..Len(items) |-> items[i][1]])
    IN  [i \in 1..Len(ordered) |-> StatsRow(ordered[i])]

---------------------------------------------------------------------------
(* The screens.  A screen is a record of the fields its class sets; the     *)
(* DataTable it holds is the fields rows (each row its key and its cells)   *)
(* and cursor_row.                                                          *)

\* CategoriesScreen.on_mount: one row per tuple of get_category_stats()
CategoryRows(d) ==
    LET stats == get_category_stats(d)
    IN  [i \in 1..Len(stats) |->
            [key |-> stats[i][1],
             cells |-> <<Capitalize(stats[i][1]), Str(stats[i][2]), Str(stats[i][3])>>]]

CategoriesScreen(d) ==
    [kind |-> "CategoriesScreen", rows |-> CategoryRows(d), cursor_row |-> 0]

\* key=lambda h: h.get("name", "")
HabitSortKey(h) == Get(h, "name", EmptyStr)

\* the first cell of a habit's row: habit.get("name", "Unknown")
HabitRowName(h) == Get(h, "name", Unknown)

\* HabitsScreen.on_mount: the rows handed to add_row, in order
HabitRows(hs, es) ==
    LET ordered == Sorted(hs, [i \in 1..Len(hs) |-> HabitSortKey(hs[i])])
    IN  [i \in 1..Len(ordered) |->
            [key |-> ordered[i].id,
             cells |-> <<HabitRowName(ordered[i]),
                         Str(Get(ordered[i], "targetPerWeek", 0)),
                         Str(Len(get_entries_for_habit(es, ordered[i].id)))>>]]

\* DataTable.add_row raises DuplicateKey for a key the table already holds
DuplicateKey(rows) ==
    \E i, j \in 1..Len(rows) : i # j /\ rows[i].key = rows[j].key

\* the rows the table holds after the add_row calls: all of them, or those
\* added before the call that raised
AddedRows(rows) ==
    IF DuplicateKey(rows)
    THEN LET first == CHOOSE j \in 1..Len(rows) :
                          /\ \E i \in 1..(j - 1) : rows[i].key = rows[j].key
                          /\ \A m \in 1..(j - 1) :
                                 ~ \E i \in 1..(m - 1) : rows[i].key = rows[m].key
         IN  SubSeq(rows, 1, first - 1)
    ELSE rows

HabitsScreen(d, es, category) ==
    LET hs == get_habits_by_category(d, category)
    IN  [kind |-> "HabitsScreen", category |-> category, habits |-> hs,
         rows |-> AddedRows(HabitRows(hs, es)), cursor_row |-> 0]

\* key=lambda e: e.get("date", "")
EntrySortKey(e) == Get(e, "date", EmptyStr)

\* the rows without the placeholder: an empty table for no entries
EntryRowsNoPlaceholder(es) ==
    LET ordered == SortedReverse(es, [i \in 1..Len(es) |-> EntrySortKey(es[i])])
    IN  [i \in 1..Len(ordered) |->
            [key |-> None,
             cells |-> <<Slice10(Get(ordered[i], "date", EmptyStr)),
                         Str(Get(ordered[i], "value", 0)),
                         Slice10(Get(ordered[i], "createdAt", EmptyStr))>>]]

\* EntriesScreen.on_mount: one row per entry, newest first, or the placeholder
EntryRows(es) ==
    LET ordered == SortedReverse(es, [i \in 1..Len(es) |-> EntrySortKey(es[i])])
    IN  IF es = << >>
        THEN << [key |-> None, cells |-> <<NoEntries, Dash, Dash>>] >>
        ELSE [i \in 1..Len(ordered) |->
                 [key |-> None,
                  cells |-> <<Slice10(Get(ordered[i], "date", EmptyStr)),
                              Str(Get(ordered[i], "value", 0)),
                              Slice10(Get(ordered[i], "createdAt", EmptyStr))>>]]

EntriesScreen(byId, es, habit_id) ==
    LET mine == get_entries_for_habit(es, habit_id)
    IN  [kind |-> "EntriesScreen", habit_id |-> habit_id,
         habit_name |-> get_habit_name(byId, habit_id),
         entries |-> mine, rows |-> EntryRows(mine), cursor_row |-> 0]

HelpScreen == [kind |-> "HelpScreen"]

---------------------------------------------------------------------------
(* Key bindings.  Textual offers a key to the focused DataTable, then to    *)
(* the screen, then to the app; a binding whose action the holder does not  *)
(* implement is passed over.                                                *)

Keys == {"j", "k", "enter", "l", "h", "escape", "q", "?", "g", "G", "up", "down"}

NoAction == "none"

\* the DataTable's own bindings that the screens rely on
DataTableBinding(key) ==
    CASE key = "enter" -> "select_cursor"
      [] key = "up" -> "cursor_up"
      [] key = "down" -> "cursor_down"
      [] OTHER -> NoAction

CategoriesBinding(key) ==
    CASE key = "j" -> "cursor_down"
      [] key = "k" -> "cursor_up"
      [] key = "enter" -> "select"
      [] key = "l" -> "select"
      [] key = "q" -> "quit"
      [] key = "?" -> "help"
      [] OTHER -> NoAction

HabitsBinding(key) ==
    CASE key = "j" -> "cursor_down"
      [] key = "k" -> "cursor_up"
      [] key = "enter" -> "select"
      [] key = "l" -> "select"
      [] key = "h" -> "back"
      [] key = "escape" -> "back"
      [] key = "q" -> "quit"
      [] key = "?" -> "help"
      [] OTHER -> NoAction

EntriesBinding(key) ==
    CASE key = "j" -> "cursor_down"
      [] key = "k" -> "cursor_up"
      [] key = "h" -> "back"
      [] key = "escape" -> "back"
      [] key = "q" -> "quit"
      [] key = "?" -> "help"
      [] key = "g" -> "go_top"
      [] key = "G" -> "go_bottom"
      [] OTHER -> NoAction

\* HelpScreen.BINDINGS without the ? toggle
HelpBindingNoToggle(key) ==
    CASE key = "escape" -> "back"
      [] key = "q" -> "back"
      [] OTHER -> NoAction

HelpBinding(key) ==
    CASE key = "escape" -> "back"
      [] key = "q" -> "back"
      [] key = "?" -> "back"
      [] OTHER -> NoAction

AppBinding(key) ==
    CASE key = "q" -> "quit"
      [] OTHER -> NoAction

ScreenBinding(kind, key) ==
    CASE kind = "CategoriesScreen" -> CategoriesBinding(key)
      [] kind = "HabitsScreen" -> HabitsBinding(key)
      [] kind = "EntriesScreen" -> EntriesBinding(key)
      [] kind = "HelpScreen" -> HelpBinding(key)

\* the action_* methods each screen class defines
ScreenActions(kind) ==
    CASE kind = "CategoriesScreen" -> {"cursor_down", "cursor_up", "select", "help"}
      [] kind = "HabitsScreen" -> {"cursor_down", "cursor_up", "select", "back", "help"}
      [] kind = "EntriesScreen" ->
             {"cursor_down", "cursor_up", "back", "help", "go_top", "go_bottom"}
      [] kind = "HelpScreen" -> {"back"}

\* who handles the key on a screen of this kind, and with which action
Resolve(kind, key) ==
    IF kind # "HelpScreen" /\ DataTableBinding(key) # NoAction
    THEN <<"DataTable", DataTableBinding(key)>>
    ELSE IF ScreenBinding(kind, key) \in ScreenActions(kind)
    THEN <<"Screen", ScreenBinding(kind, key)>>
    ELSE IF AppBinding(key) # NoAction
    THEN <<"App", AppBinding(key)>>
    ELSE <<"nobody", NoAction>>

\* for each kind of screen, the (holder, action) pairs its keys resolve to
Dispatch ==
    [kind \in {"CategoriesScreen", "HabitsScreen", "EntriesScreen", "HelpScreen"} |->
        { Resolve(kind, key) : key \in Keys }]

\* some key pressed on a screen of this kind makes one of these holders run
\* this action
Handles(kind, holders, action) ==
    (\E holder \in holders : <<holder, action>> \in Dispatch[kind]) = TRUE

---------------------------------------------------------------------------
(* The app *)

\* no screen: what "closed" holds when the last step popped nothing
NoScreen == [kind |-> "none"]

\* a screen as its on_mount left it: the cursor on the first row
AsMounted(screen) ==
    IF screen.kind = "HelpScreen" THEN screen ELSE [screen EXCEPT !.cursor_row = 0]

\* HumaneData(data=...) followed by HumaneCLI.on_mount, which pushes the
\* CategoriesScreen
Loaded(snapshots) ==
    /\ data \in snapshots
    /\ habits = HabitsById(data)
    /\ entries = EntryList(data)
    /\ stack = << CategoriesScreen(data) >>
    /\ ret = << << >> >>
    /\ status = "running"
    /\ result = [op |-> "none"]
    /\ last = "none"
    /\ closed = NoScreen

Init == Loaded(NavSnapshots)

InitData == Loaded(Snapshots)

Top == stack[Len(stack)]

Running == status = "running" /\ stack # << >>

\* a clamp that only keeps the value from falling below the lower limit
ClampBelow(value, minimum, maximum) ==
    IF value < Min(minimum, maximum) THEN Min(minimum, maximum) ELSE value

\* textual.geometry.clamp: the limits are swapped when minimum > maximum
Clamp(value, minimum, maximum) ==
    LET lo == Min(minimum, maximum)
        hi == Max(minimum, maximum)
    IN  IF value < lo THEN lo ELSE IF value > hi THEN hi ELSE value

\* DataTable.cursor_coordinate is validated on every assignment
MoveCursor(row) ==
    stack' = [stack EXCEPT ![Len(stack)].cursor_row =
                               Clamp(row, 0, Len(Top.rows) - 1)]

\* HabitsScreen.on_mount raises when two of its habits have the same id
MountRaises(screen) ==
    screen.kind = "HabitsScreen" /\ DuplicateKey(HabitRows(screen.habits, entries))

\* App.push_screen followed by the screen's on_mount; an exception raised
\* while mounting is unhandled and ends the app with the screen on the stack
PushScreen(screen) ==
    /\ stack' = Append(stack, screen)
    /\ ret' = Append(ret, stack)
    /\ status' = IF MountRaises(screen) THEN "crashed" ELSE status

\* pop_screen with the uncovered screen mounted afresh: its cursor back on
\* the first row
PopScreenRemounted ==
    /\ stack' = [SubSeq(stack, 1, Len(stack) - 1) EXCEPT ![Len(stack) - 1].cursor_row = 0]
    /\ ret' = SubSeq(ret, 1, Len(ret) - 1)
    /\ UNCHANGED status

\* App.pop_screen
PopScreen ==
    /\ stack' = SubSeq(stack, 1, Len(stack) - 1)
    /\ ret' = SubSeq(ret, 1, Len(ret) - 1)
    /\ UNCHANGED status

\* the screen that a row key of this screen opens
ScreenFor(screen, row_key) ==
    IF screen.kind = "CategoriesScreen"
    THEN HabitsScreen(data, entries, row_key)
    ELSE EntriesScreen(habits, entries, row_key)

\* the row key taken from the text of the row's first cell
CursorRowText(screen) == screen.rows[screen.cursor_row + 1].cells[1]

\* the row key taken from the first row, whatever the cursor
FirstRowKey(screen) == screen.rows[1].key

\* table.coordinate_to_cell_key((table.cursor_row, 0)).row_key
CursorRowKey(screen) == screen.rows[screen.cursor_row + 1].key

\* action_cursor_down of the three list screens (j), DataTable's own (down)
CursorDown ==
    /\ Running
    /\ Handles(Top.kind, {"DataTable", "Screen"}, "cursor_down")
    /\ MoveCursor(Top.cursor_row + 1)
    /\ UNCHANGED <<data, habits, entries, status, result, ret>>
    /\ last' = "CursorDown"
    /\ closed' = NoScreen

\* action_cursor_up of the three list screens (k), DataTable's own (up)
CursorUp ==
    /\ Running
    /\ Handles(Top.kind, {"DataTable", "Screen"}, "cursor_up")
    /\ MoveCursor(Top.cursor_row - 1)
    /\ UNCHANGED <<data, habits, entries, status, result, ret>>
    /\ last' = "CursorUp"
    /\ closed' = NoScreen

\* a select that takes the entries it shows out of the accessor's list
SelectTakingEntries ==
    /\ Running
    /\ Handles(Top.kind, {"Screen"}, "select")
    /\ IF Len(Top.rows) > 0
       THEN PushScreen(ScreenFor(Top, CursorRowKey(Top)))
       ELSE UNCHANGED <<stack, status, ret>>
    /\ entries' = IF Len(Top.rows) > 0 /\ Top.kind = "HabitsScreen"
                  THEN SelectSeq(entries, LAMBDA e : ~ ForHabit(e, CursorRowKey(Top)))
                  ELSE entries
    /\ UNCHANGED <<data, habits, result>>
    /\ last' = "Select"
    /\ closed' = NoScreen

\* CategoriesScreen.action_select, HabitsScreen.action_select (l)
Select ==
    /\ Running
    /\ Handles(Top.kind, {"Screen"}, "select")
    /\ IF Len(Top.rows) > 0
       THEN PushScreen(ScreenFor(Top, CursorRowKey(Top)))
       ELSE UNCHANGED <<stack, status, ret>>
    /\ UNCHANGED <<data, habits, entries, result>>
    /\ last' = "Select"
    /\ closed' = NoScreen

\* RowSelected handled by every list screen, the EntriesScreen included
RowSelectedOnEveryScreen ==
    /\ Running
    /\ Handles(Top.kind, {"DataTable"}, "select_cursor")
    /\ IF Len(Top.rows) > 0
       THEN PushScreen(ScreenFor(Top, CursorRowKey(Top)))
       ELSE UNCHANGED <<stack, status, ret>>
    /\ UNCHANGED <<data, habits, entries, result>>
    /\ last' = "RowSelected"
    /\ closed' = NoScreen

\* enter handled twice: on_row_selected pushes a screen and the screen's own
\* enter binding then runs action_select on the same table
RowSelectedAndSelect ==
    /\ Running
    /\ Handles(Top.kind, {"DataTable"}, "select_cursor")
    /\ IF Len(Top.rows) > 0 /\ Top.kind \in {"CategoriesScreen", "HabitsScreen"}
       THEN LET screen == ScreenFor(Top, CursorRowKey(Top))
            IN  /\ stack' = Append(Append(stack, screen), screen)
                /\ ret' = Append(Append(ret, stack), Append(stack, screen))
                /\ status' = IF MountRaises(screen) THEN "crashed" ELSE status
       ELSE UNCHANGED <<stack, status, ret>>
    /\ UNCHANGED <<data, habits, entries, result>>
    /\ last' = "RowSelected"
    /\ closed' = NoScreen

\* enter: DataTable.action_select_cursor posts RowSelected for the cursor row
\* of a table that has rows, which on_row_selected of CategoriesScreen and of
\* HabitsScreen handles; EntriesScreen has no handler for it
RowSelected ==
    /\ Running
    /\ Handles(Top.kind, {"DataTable"}, "select_cursor")
    /\ IF Len(Top.rows) > 0 /\ Top.kind \in {"CategoriesScreen", "HabitsScreen"}
       THEN PushScreen(ScreenFor(Top, CursorRowKey(Top)))
       ELSE UNCHANGED <<stack, status, ret>>
    /\ UNCHANGED <<data, habits, entries, result>>
    /\ last' = "RowSelected"
    /\ closed' = NoScreen

\* action_back of HabitsScreen, EntriesScreen (h, escape) and HelpScreen
\* (escape, q, ?)
Back ==
    /\ Running
    /\ Handles(Top.kind, {"Screen"}, "back")
    /\ PopScreen
    /\ UNCHANGED <<data, habits, entries, result>>
    /\ last' = "Back"
    /\ closed' = AsMounted(Top)

\* a help action that every screen has, the Help screen included
HelpOnEveryScreen ==
    /\ Running
    /\ PushScreen(HelpScreen)
    /\ UNCHANGED <<data, habits, entries, result>>
    /\ last' = "Help"
    /\ closed' = NoScreen

\* action_help of the three list screens (?)
Help ==
    /\ Running
    /\ Handles(Top.kind, {"Screen"}, "help")
    /\ PushScreen(HelpScreen)
    /\ UNCHANGED <<data, habits, entries, result>>
    /\ last' = "Help"
    /\ closed' = NoScreen

\* EntriesScreen.action_go_top (g)
GoTop ==
    /\ Running
    /\ Handles(Top.kind, {"Screen"}, "go_top")
    /\ MoveCursor(0)
    /\ UNCHANGED <<data, habits, entries, status, result, ret>>
    /\ last' = "GoTop"
    /\ closed' = NoScreen

\* EntriesScreen.action_go_bottom (G)
GoBottom ==
    /\ Running
    /\ Handles(Top.kind, {"Screen"}, "go_bottom")
    /\ MoveCursor(Len(Top.rows) - 1)
    /\ UNCHANGED <<data, habits, entries, status, result, ret>>
    /\ last' = "GoBottom"
    /\ closed' = NoScreen

\* the app's quit binding (q where no screen action takes the key): App.exit
\* closes every screen
Quit ==
    /\ Running
    /\ Handles(Top.kind, {"App"}, "quit")
    /\ status' = "exited"
    /\ stack' = << >>
    /\ ret' = << >>
    /\ UNCHANGED <<data, habits, entries, result>>
    /\ last' = "Quit"
    /\ closed' = NoScreen

\* a key nothing is bound to pops the visible screen
UnboundPops ==
    /\ Running
    /\ Handles(Top.kind, {"nobody"}, NoAction)
    /\ PopScreen
    /\ UNCHANGED <<data, habits, entries, result>>
    /\ last' = "Unbound"
    /\ closed' = NoScreen

\* a key nothing is bound to on the visible screen
Unbound ==
    /\ Running
    /\ Handles(Top.kind, {"nobody"}, NoAction)
    /\ UNCHANGED <<data, habits, entries, stack, status, result, ret>>
    /\ last' = "Unbound"
    /\ closed' = NoScreen

\* one key press on the visible screen: the action the key resolves to
Press(key) ==
    /\ Running
    /\ LET holder == Resolve(Top.kind, key)[1]
           action == Resolve(Top.kind, key)[2]
       IN  \/ action = "cursor_down" /\ CursorDown
           \/ action = "cursor_up" /\ CursorUp
           \/ holder = "Screen" /\ action = "select" /\ Select
           \/ holder = "DataTable" /\ action = "select_cursor" /\ RowSelected
           \/ holder = "Screen" /\ action = "back" /\ Back
           \/ holder = "Screen" /\ action = "help" /\ Help
           \/ holder = "Screen" /\ action = "go_top" /\ GoTop
           \/ holder = "Screen" /\ action = "go_bottom" /\ GoBottom
           \/ holder = "App" /\ action = "quit" /\ Quit
           \/ holder = "nobody" /\ Unbound

Next ==
    \/ CursorDown
    \/ CursorUp
    \/ Select
    \/ RowSelected
    \/ Back
    \/ Help
    \/ GoTop
    \/ GoBottom
    \/ Quit
    \/ Unbound

Spec == Init /\ [][Next]_vars

---------------------------------------------------------------------------
(* The accessor's queries, called on the loaded snapshot *)

\* "fit", "uncategorized" and "Fit", the capitalised text of "fit"
CategoryArgs == CategoryNames \cup {uncategorized, Capitalize(<<102, 105, 116>>)}

HabitIdArgs == HabitIds \cup {UnknownId}

Returned(op, arg, value) == [op |-> op, arg |-> arg, value |-> value]

CallGetCategories ==
    /\ result' = Returned("get_categories", None, get_categories(data))
    /\ UNCHANGED <<data, habits, entries, stack, status, ret, last, closed>>

CallGetCategoryStats ==
    /\ result' = Returned("get_category_stats", None, get_category_stats(data))
    /\ UNCHANGED <<data, habits, entries, stack, status, ret, last, closed>>

CallGetHabitsByCategory ==
    /\ \E c \in CategoryArgs :
           result' = Returned("get_habits_by_category", c, get_habits_by_category(data, c))
    /\ UNCHANGED <<data, habits, entries, stack, status, ret, last, closed>>

CallGetEntriesForHabit ==
    /\ \E id \in HabitIdArgs :
           result' = Returned("get_entries_for_habit", id, get_entries_for_habit(entries, id))
    /\ UNCHANGED <<data, habits, entries, stack, status, ret, last, closed>>

CallGetHabitName ==
    /\ \E id \in HabitIdArgs :
           result' = Returned("get_habit_name", id, get_habit_name(habits, id))
    /\ UNCHANGED <<data, habits, entries, stack, status, ret, last, closed>>

NextData ==
    \/ CallGetCategories
    \/ CallGetCategoryStats
    \/ CallGetHabitsByCategory
    \/ CallGetEntriesForHabit
    \/ CallGetHabitName

SpecData == InitData /\ [][NextData]_vars

---------------------------------------------------------------------------
(* Construction: HumaneData.__init__ and HumaneCLI.__init__.  An argument   *)
(* that may be None is a tuple: << >> for None, <<v>> for the value v.      *)

\* the JSON object {}
EmptyDict == [key \in {} |-> None]

\* data=None
NoData == << >>

\* the path "b.json"
BackupPath == <<98, 46, 106, 115, 111, 110>>

\* filepath: None, "" or a path
FilepathArgs == {None, EmptyStr, BackupPath}

\* the parsed documents handed to data=: {} and documents of at most one habit
DataArgs ==
    {NoData}
    \cup { <<d>> : d \in {EmptyDict}
                         \cup SnapshotsOf(SeqsUpTo(HabitObjectsWithTarget, 1),
                                          EntryLists({ <<104, 49>> }, EntryDates)) }

\* what open(filepath) and json.load find: no such file, a file that is not
\* JSON, or a JSON document
Files ==
    { [found |-> "missing"], [found |-> "malformed"],
      [found |-> "json", value |-> EmptyDict],
      [found |-> "json", value |-> [version |-> 1]] }

\* Python's truth value of a filepath argument
Truthy(filepath) == filepath # None /\ filepath # EmptyStr

\* the constructor that tests "if data:" instead of "if data is not None:"
HumaneData_init_truthy(filepath, arg, file) ==
    IF arg # NoData /\ DOMAIN arg[1] # {}
    THEN [raised |-> "none", data |-> arg[1]]
    ELSE IF Truthy(filepath)
    THEN IF file.found = "json"
         THEN [raised |-> "none", data |-> file.value]
         ELSE [raised |-> IF file.found = "missing" THEN "OSError" ELSE "JSONDecodeError"]
    ELSE [raised |-> "ValueError"]

\* HumaneData.__init__: the exception raised ("none" for a normal return)
\* and, on a normal return, self.data
HumaneData_init(filepath, arg, file) ==
    IF arg # NoData
    THEN [raised |-> "none", data |-> arg[1]]
    ELSE IF Truthy(filepath)
    THEN IF file.found = "json"
         THEN [raised |-> "none", data |-> file.value]
         ELSE [raised |-> IF file.found = "missing" THEN "OSError" ELSE "JSONDecodeError"]
    ELSE [raised |-> "ValueError"]

\* before anything is constructed: no accessor, no app
InitNew ==
    /\ data = EmptyDict
    /\ habits = HabitsById(EmptyDict)
    /\ entries = << >>
    /\ stack = << >>
    /\ ret = << >>
    /\ status = "new"
    /\ result = [op |-> "none"]
    /\ last = "none"
    /\ closed = NoScreen

\* the effect of a constructor call that ended as "outcome" and, on a normal
\* return, leaves the program in the state "built"
Constructed(outcome, built) ==
    IF outcome.raised = "none"
    THEN /\ data' = outcome.data
         /\ habits' = HabitsById(outcome.data)
         /\ entries' = EntryList(outcome.data)
         /\ status' = built
    ELSE /\ status' = "raised"
         /\ UNCHANGED <<data, habits, entries>>

\* HumaneData(filepath=..., data=...)
NewHumaneData ==
    /\ status = "new"
    /\ \E filepath \in FilepathArgs, arg \in DataArgs, file \in Files :
           LET outcome == HumaneData_init(filepath, arg, file)
           IN  /\ Constructed(outcome, "accessor")
               /\ result' = [op |-> "HumaneData", filepath |-> filepath, data |-> arg,
                             raised |-> outcome.raised]
    /\ UNCHANGED <<stack, ret, last, closed>>

\* HumaneCLI(filepath=..., humane_data=...), humane_data being None or the
\* accessor constructed before
NewHumaneCLI ==
    /\ status \in {"new", "accessor"}
    /\ \E filepath \in FilepathArgs, file \in Files,
          humane_data \in IF status = "accessor" THEN {NoData, <<data>>} ELSE {NoData} :
           LET outcome == IF humane_data # NoData
                          THEN [raised |-> "none", data |-> humane_data[1]]
                          ELSE IF Truthy(filepath)
                          THEN HumaneData_init(filepath, NoData, file)
                          ELSE [raised |-> "ValueError"]
           IN  /\ Constructed(outcome, "app")
               /\ result' = [op |-> "HumaneCLI", filepath |-> filepath,
                             humane_data |-> humane_data, raised |-> outcome.raised]
    /\ UNCHANGED <<stack, ret, last, closed>>

\* HumaneCLI.on_mount
Mount ==
    /\ status = "app"
    /\ stack' = << CategoriesScreen(data) >>
    /\ ret' = << << >> >>
    /\ status' = "running"
    /\ UNCHANGED <<data, habits, entries, result, last, closed>>

\* a query of the constructed accessor
Query ==
    /\ status = "accessor"
    /\ NextData

NextNew ==
    \/ NewHumaneData
    \/ NewHumaneCLI
    \/ Mount
    \/ Query

SpecNew == InitNew /\ [][NextNew]_vars

---------------------------------------------------------------------------
(* Properties.  What a property says of the snapshot is stated over the     *)
(* "habits" and "entries" lists themselves, not over the accessor.          *)

\* the habits of the snapshot, as a list
SnapshotHabits == IF "habits" \in DOMAIN data THEN data.habits ELSE << >>

\* the entries of the snapshot, as a list
SnapshotEntries == IF "entries" \in DOMAIN data THEN data.entries ELSE << >>

\* the category of a habit: its category field, "uncategorized" without one
CategoryOf(h) == IF "category" \in DOMAIN h THEN h.category ELSE uncategorized

\* the weekly target of a habit: 0 without the field
TargetOf(h) == IF "targetPerWeek" \in DOMAIN h THEN h.targetPerWeek ELSE 0

\* the name of a habit: "Unknown" without the field
NameOf(h) == IF "name" \in DOMAIN h THEN h.name ELSE Unknown

SnapshotCategories == { CategoryOf(SnapshotHabits[i]) : i \in 1..Len(SnapshotHabits) }

SnapshotHabitIds == { SnapshotHabits[i].id : i \in 1..Len(SnapshotHabits) }

\* the positions of the habits of category c
HabitsIn(c) == { i \in 1..Len(SnapshotHabits) : CategoryOf(SnapshotHabits[i]) = c }

\* the positions of the entries whose habitId is id
EntriesOf(id) ==
    { i \in 1..Len(SnapshotEntries) :
          "habitId" \in DOMAIN SnapshotEntries[i] /\ SnapshotEntries[i].habitId = id }

\* the k-th smallest member of a set of positions
Nth(P, k) == CHOOSE i \in P : Cardinality({ j \in P : j < i }) = k - 1

\* the members of a list at the positions P, in list order
Picked(list, P) == [k \in 1..Cardinality(P) |-> list[Nth(P, k)]]

\* C1: get_category_stats() returns one row per distinct category (a habit
\* without a category counting as "uncategorized"), in ascending order of
\* category name, each row (c, n, t) holding the number n of habits of
\* category c and the sum t of their targetPerWeek (absent counting as 0).
C1_CategoryStats ==
    result.op = "get_category_stats" =>
        LET stats == result.value
        IN  /\ Len(stats) = Cardinality(SnapshotCategories)
            /\ { stats[i][1] : i \in 1..Len(stats) } = SnapshotCategories
            /\ \A i, j \in 1..Len(stats) : i < j => StrLess(stats[i][1], stats[j][1])
            /\ \A i \in 1..Len(stats) :
                   /\ stats[i][2] = Cardinality(HabitsIn(stats[i][1]))
                   /\ stats[i][3] =
                          SumSeq([k \in 1..Len(SnapshotHabits) |->
                                     IF k \in HabitsIn(stats[i][1])
                                     THEN TargetOf(SnapshotHabits[k]) ELSE 0])

\* get_category_stats() was called on a snapshot with two categories, first
\* listed in descending order, one of them a habit without a category, and a
\* habit without a targetPerWeek
C1_Witness ==
    /\ result.op = "get_category_stats"
    /\ Len(result.value) = 2
    /\ Len(SnapshotHabits) = 2
    /\ StrLess(CategoryOf(SnapshotHabits[2]), CategoryOf(SnapshotHabits[1]))
    /\ "category" \notin DOMAIN SnapshotHabits[1]
    /\ "targetPerWeek" \notin DOMAIN SnapshotHabits[1]
    /\ "targetPerWeek" \in DOMAIN SnapshotHabits[2]

\* C1, second case: two habits share one category and their targets add up
C1_WitnessSum ==
    /\ result.op = "get_category_stats"
    /\ Len(result.value) = 1
    /\ result.value[1][2] = 2
    /\ result.value[1][3] = 6

\* C2: get_habits_by_category(c) returns exactly the habits whose category is
\* c, a habit without a category field having the category "uncategorized".
C2_HabitsByCategory ==
    result.op = "get_habits_by_category" =>
        result.value = Picked(SnapshotHabits, HabitsIn(result.arg))

\* C3: get_habit_name(id) returns "Unknown" for an id no habit of the
\* snapshot has, and for an id some habit has the name of a habit with that
\* id ("Unknown" when that habit has no name field).
C3_HabitName ==
    result.op = "get_habit_name" =>
        IF result.arg \in SnapshotHabitIds
        THEN \E i \in 1..Len(SnapshotHabits) :
                 /\ SnapshotHabits[i].id = result.arg
                 /\ result.value = NameOf(SnapshotHabits[i])
        ELSE result.value = Unknown

\* get_habit_name was called with an id no habit has, on a snapshot with habits
C3_Witness ==
    /\ result.op = "get_habit_name"
    /\ result.arg \notin SnapshotHabitIds
    /\ SnapshotHabits # << >>
    /\ result.value = Unknown

\* C3, second case: the id is present and its habit has a name
C3_WitnessKnown ==
    /\ result.op = "get_habit_name"
    /\ result.arg \in SnapshotHabitIds
    /\ result.value \in HabitNames

---------------------------------------------------------------------------
(* Navigation properties.  Select is the key l or enter, Back the key h or  *)
(* escape, ShowHelp the key ?, Quit the key q.                              *)

\* the visible screen after the step
NewTop == stack'[Len(stack')]

\* the k-th category of the snapshot in ascending order of category name
NthCategory(k) ==
    CHOOSE c \in SnapshotCategories :
        Cardinality({ x \in SnapshotCategories : StrLess(x, c) }) = k - 1

\* the last habit of the snapshot with this id
LastHabitWithId(id) ==
    SnapshotHabits[CHOOSE i \in 1..Len(SnapshotHabits) :
                       /\ SnapshotHabits[i].id = id
                       /\ \A j \in (i + 1)..Len(SnapshotHabits) : SnapshotHabits[j].id # id]

\* the number of habits of the snapshot with this id
HabitsWithId(id) ==
    Cardinality({ i \in 1..Len(SnapshotHabits) : SnapshotHabits[i].id = id })

\* C5: on the Categories screen with the cursor on row r, Select pushes a
\* Habits screen whose category is the r-th category in ascending order of
\* category name: the raw key of the row, not its capitalised text.
C5_SelectCategory ==
    [][ ( /\ Running
          /\ Top.kind = "CategoriesScreen"
          /\ Len(Top.rows) > 0
          /\ (Press("l") \/ Press("enter")) )
        => ( /\ Len(stack') = Len(stack) + 1
             /\ NewTop.kind = "HabitsScreen"
             /\ NewTop.category = NthCategory(Top.cursor_row + 1) ) ]_vars

\* Select on the second row of the Categories screen has pushed the Habits
\* screen of a category whose capitalised text differs from its key
C5_Witness ==
    /\ last \in {"Select", "RowSelected"}
    /\ Len(stack) = 2
    /\ stack[1].cursor_row = 1
    /\ stack[2].kind = "HabitsScreen"
    /\ stack[2].category = stack[1].rows[2].key
    /\ stack[2].category # stack[1].rows[2].cells[1]

\* C6 as stated: on a Habits screen with the cursor on row r, Select pushes an
\* Entries screen for the habit id the row was tagged with, and the Entries
\* screen's habit name is the name shown in that row.
C6_AsStated ==
    [][ ( /\ Running
          /\ Top.kind = "HabitsScreen"
          /\ Len(Top.rows) > 0
          /\ (Press("l") \/ Press("enter")) )
        => ( /\ Len(stack') = Len(stack) + 1
             /\ NewTop.kind = "EntriesScreen"
             /\ NewTop.habit_id = Top.rows[Top.cursor_row + 1].key
             /\ NewTop.habit_name = Top.rows[Top.cursor_row + 1].cells[1] ) ]_vars

\* C6 as amended: Select pushes an Entries screen for the habit id the row
\* under the cursor was tagged with; its habit name is the name of the last
\* habit of the snapshot with that id, which is the name shown in the row
\* when no other habit has that id.
C6_SelectHabit ==
    [][ ( /\ Running
          /\ Top.kind = "HabitsScreen"
          /\ Len(Top.rows) > 0
          /\ (Press("l") \/ Press("enter")) )
        => ( /\ Len(stack') = Len(stack) + 1
             /\ NewTop.kind = "EntriesScreen"
             /\ NewTop.habit_id = Top.rows[Top.cursor_row + 1].key
             /\ NewTop.habit_name = NameOf(LastHabitWithId(NewTop.habit_id))
             /\ HabitsWithId(NewTop.habit_id) = 1 =>
                    NewTop.habit_name = Top.rows[Top.cursor_row + 1].cells[1] ) ]_vars

\* Select on the second row of a Habits screen has pushed the Entries screen
\* of that row's habit, titled with that row's name
C6_Witness ==
    /\ last \in {"Select", "RowSelected"}
    /\ Len(stack) = 3
    /\ stack[3].kind = "EntriesScreen"
    /\ stack[2].cursor_row = 1
    /\ stack[3].habit_id = stack[2].rows[2].key
    /\ stack[3].habit_id # stack[2].rows[1].key
    /\ stack[3].habit_name = stack[2].rows[2].cells[1]

\* C7: Back from the Habits screen that Select opened on row r of the
\* Categories screen restores the stack of that moment, cursor on row r
\* included; Back from an Entries screen likewise restores the Habits screen
\* beneath it.  A Select that pushes leaves every screen beneath as it was.
C7_SelectBack ==
    [][ /\ ( /\ Running
             /\ Top.kind \in {"HabitsScreen", "EntriesScreen"}
             /\ (Press("h") \/ Press("escape")) )
           => ( /\ stack' = ret[Len(stack)]
                /\ status' = "running"
                /\ NewTop.kind = IF Top.kind = "HabitsScreen"
                                 THEN "CategoriesScreen" ELSE "HabitsScreen" )
        /\ ( /\ Running
             /\ Top.kind \in {"CategoriesScreen", "HabitsScreen"}
             /\ (Press("l") \/ Press("enter"))
             /\ Len(stack') # Len(stack) )
           => ( /\ SubSeq(stack', 1, Len(stack)) = stack
                /\ ret'[Len(stack')] = stack ) ]_vars

\* Back has returned to the Categories screen, whose cursor is on its second
\* row, where Select was issued
C7_Witness ==
    /\ last = "Back"
    /\ status = "running"
    /\ Len(stack) = 1
    /\ Top.kind = "CategoriesScreen"
    /\ Top.cursor_row = 1

\* C7, second case: Back has returned from an Entries screen to the Habits
\* screen, whose cursor is on its second row
C7_WitnessEntries ==
    /\ last = "Back"
    /\ Len(stack) = 2
    /\ Top.kind = "HabitsScreen"
    /\ Top.cursor_row = 1
    /\ Len(get_entries_for_habit(entries, Top.rows[2].key)) > 0

\* C8: ShowHelp on a Categories, Habits or Entries screen puts the Help screen
\* on top of the unchanged stack, and Back or the help toggle on the Help
\* screen restores the stack as it was before ShowHelp, cursor included.
C8_HelpBack ==
    [][ /\ ( /\ Running
             /\ Top.kind # "HelpScreen"
             /\ Press("?") )
           => ( /\ stack' = Append(stack, HelpScreen)
                /\ ret'[Len(stack')] = stack
                /\ status' = "running" )
        /\ ( /\ Running
             /\ Top.kind = "HelpScreen"
             /\ (Press("escape") \/ Press("?")) )
           => ( /\ stack' = ret[Len(stack)]
                /\ Len(stack') = Len(stack) - 1
                /\ status' = "running" ) ]_vars

\* Back has returned from the Help screen to an Entries screen (which only
\* the Help screen can cover) whose cursor is on its second row
C8_Witness ==
    /\ last = "Back"
    /\ status = "running"
    /\ Len(stack) = 3
    /\ Top.kind = "EntriesScreen"
    /\ Top.cursor_row = 1

\* C9: Quit on any screen, Help included, terminates the app: no screen is
\* shown any more.
C9_QuitTerminates ==
    [][ (Running /\ Press("q")) => (status' = "exited" /\ stack' = << >>) ]_vars

\* C10: the rows of a Habits screen are in ascending order of the name shown
\* in the row, a habit without a name being shown as "Unknown".
C10_HabitsSorted ==
    \A i \in 1..Len(stack) :
        stack[i].kind = "HabitsScreen" =>
            \A r \in 1..(Len(stack[i].rows) - 1) :
                StrLeq(stack[i].rows[r].cells[1], stack[i].rows[r + 1].cells[1])

\* the row that stands for "this habit has no entries"
PlaceholderCells == <<NoEntries, Dash, Dash>>

\* C11: an Entries screen never has zero rows: for a habit without entries in
\* the snapshot it has exactly the one placeholder row, for a habit with k >= 1
\* entries it has exactly k rows, none of them the placeholder.
C11_EntriesRows ==
    \A i \in 1..Len(stack) :
        stack[i].kind = "EntriesScreen" =>
            LET k == Cardinality(EntriesOf(stack[i].habit_id))
                rows == stack[i].rows
            IN  /\ Len(rows) >= 1
                /\ k = 0 => Len(rows) = 1 /\ rows[1].cells = PlaceholderCells
                /\ k >= 1 => /\ Len(rows) = k
                             /\ \A r \in 1..k : rows[r].cells # PlaceholderCells

\* Select has opened the Entries screen of a habit without entries, in a
\* snapshot that has entries of another habit
C11_Witness ==
    /\ last \in {"Select", "RowSelected"}
    /\ Top.kind = "EntriesScreen"
    /\ EntriesOf(Top.habit_id) = {}
    /\ SnapshotEntries # << >>
    /\ Len(Top.rows) = 1

\* C11, second case: the Entries screen of a habit with two entries
C11_WitnessTwo ==
    /\ last \in {"Select", "RowSelected"}
    /\ Top.kind = "EntriesScreen"
    /\ Cardinality(EntriesOf(Top.habit_id)) = 2
    /\ Len(Top.rows) = 2

\* the date of an entry as the sort sees it: "" without the field
DateOf(e) == IF "date" \in DOMAIN e THEN e.date ELSE EmptyStr

\* the row an entry of the snapshot is shown as
CellsOf(e) ==
    <<Slice10(DateOf(e)),
      Str(IF "value" \in DOMAIN e THEN e.value ELSE 0),
      Slice10(IF "createdAt" \in DOMAIN e THEN e.createdAt ELSE EmptyStr)>>

\* the row of the entry at position i among the entries at the positions P:
\* one more than the number of entries that come before it, those of a later
\* date and those of the same date earlier in the snapshot
RowOf(i, P) ==
    1 + Cardinality({ j \in P :
                         \/ StrLess(DateOf(SnapshotEntries[i]), DateOf(SnapshotEntries[j]))
                         \/ /\ DateOf(SnapshotEntries[j]) = DateOf(SnapshotEntries[i])
                            /\ j < i })

\* C12: the rows of an Entries screen are the habit's entries in descending
\* order of the raw date string, entries of equal date in snapshot order.
C12_EntriesSorted ==
    \A i \in 1..Len(stack) :
        stack[i].kind = "EntriesScreen" =>
            LET P == EntriesOf(stack[i].habit_id)
            IN  \A p \in P :
                    /\ RowOf(p, P) \in 1..Len(stack[i].rows)
                    /\ stack[i].rows[RowOf(p, P)].cells = CellsOf(SnapshotEntries[p])

\* Select has opened an Entries screen of two entries of the same date, shown
\* in snapshot order
C12_Witness ==
    /\ last \in {"Select", "RowSelected"}
    /\ Top.kind = "EntriesScreen"
    /\ Len(SnapshotEntries) = 2
    /\ EntriesOf(Top.habit_id) = {1, 2}
    /\ SnapshotEntries[1].date = SnapshotEntries[2].date
    /\ Top.rows[1].cells = CellsOf(SnapshotEntries[1])
    /\ Top.rows[1].cells # Top.rows[2].cells

\* C12, second case: two entries listed oldest first are shown newest first
C12_WitnessOrder ==
    /\ last \in {"Select", "RowSelected"}
    /\ Top.kind = "EntriesScreen"
    /\ EntriesOf(Top.habit_id) = {1, 2}
    /\ StrLess(SnapshotEntries[1].date, SnapshotEntries[2].date)
    /\ Top.rows[1].cells = CellsOf(SnapshotEntries[2])

\* C13: HumaneData(...) with neither a file path nor a parsed document raises
\* an error and leaves no accessor to query; with a parsed document, the
\* empty one included, it returns an accessor of that document.  HumaneCLI(...)
\* with neither a path nor an accessor raises likewise, and with an accessor
\* returns an app that mounts.
C13_Construction ==
    /\ result.op = "HumaneData" =>
           /\ (result.data = NoData /\ result.filepath \in {None, EmptyStr}) =>
                  /\ status = "raised"
                  /\ result.raised = "ValueError"
           /\ result.data # NoData =>
                  /\ status = "accessor"
                  /\ result.raised = "none"
                  /\ data = result.data[1]
                  /\ entries = SnapshotEntries
                  /\ DOMAIN habits = SnapshotHabitIds
    /\ result.op = "HumaneCLI" =>
           /\ (result.humane_data = NoData /\ result.filepath \in {None, EmptyStr}) =>
                  /\ status = "raised"
                  /\ result.raised = "ValueError"
           /\ result.humane_data # NoData =>
                  /\ status \in {"app", "running"}
                  /\ result.raised = "none"
                  /\ data = result.humane_data[1]
    /\ status = "raised" => ~ ENABLED NextNew
    /\ status = "accessor" => ENABLED Query
    /\ status = "app" => ENABLED Mount

\* HumaneData() with no argument at all has raised ValueError
C13_Witness ==
    /\ status = "raised"
    /\ result.op = "HumaneData"
    /\ result.filepath = None
    /\ result.data = NoData
    /\ result.raised = "ValueError"

\* C13, second case: HumaneData(data={}) has returned and been queried
C13_WitnessEmpty ==
    /\ status = "accessor"
    /\ data = EmptyDict
    /\ result.op = "get_category_stats"
    /\ result.value = << >>

\* C13, third case: HumaneCLI() with no argument at all has raised ValueError
C13_WitnessApp ==
    /\ status = "raised"
    /\ result.op = "HumaneCLI"
    /\ result.filepath = None
    /\ result.humane_data = NoData
    /\ result.raised = "ValueError"

\* C14: Back on the Categories screen does nothing: the stack, with the
\* visible screen and its cursor, is unchanged and the app keeps running, so
\* the Categories screen is never popped.
C14_BackOnCategories ==
    [][ ( /\ Running
          /\ Top.kind = "CategoriesScreen"
          /\ (Press("h") \/ Press("escape")) )
        => ( /\ stack' = stack
             /\ status' = "running"
             /\ stack'[1].kind = "CategoriesScreen" ) ]_vars

\* a key without a binding was pressed on the Categories screen, which is
\* still the visible screen with its cursor on the second row
C14_Witness ==
    /\ last = "Unbound"
    /\ status = "running"
    /\ Len(stack) = 1
    /\ Top.kind = "CategoriesScreen"
    /\ Top.cursor_row = 1

\* a Categories, Habits or Entries screen
ListScreen(screen) == screen.kind \in {"CategoriesScreen", "HabitsScreen", "EntriesScreen"}

\* the cursor of a screen that has rows is on one of them
CursorInRange(screen) ==
    (ListScreen(screen) /\ Len(screen.rows) >= 1)
        => screen.cursor_row \in 0..(Len(screen.rows) - 1)

\* C15: on every list screen that has rows the cursor stays within
\* [0, rowCount-1]; MoveDown (j, down) on the last row and MoveUp (k, up) on
\* row 0 leave it where it is, otherwise they move it by exactly one row; on
\* the Entries screen GoTop (g) puts it on row 0 and GoBottom (G) on the last
\* row.
C15_Cursor ==
    [][ /\ \A i \in 1..Len(stack) : CursorInRange(stack[i])
        /\ \A i \in 1..Len(stack') : CursorInRange(stack'[i])
        /\ ( /\ Running /\ ListScreen(Top) /\ Len(Top.rows) >= 1
             /\ (Press("j") \/ Press("down")) )
           => stack' = [stack EXCEPT ![Len(stack)].cursor_row =
                            IF Top.cursor_row = Len(Top.rows) - 1
                            THEN Top.cursor_row ELSE Top.cursor_row + 1]
        /\ ( /\ Running /\ ListScreen(Top) /\ Len(Top.rows) >= 1
             /\ (Press("k") \/ Press("up")) )
           => stack' = [stack EXCEPT ![Len(stack)].cursor_row =
                            IF Top.cursor_row = 0
                            THEN Top.cursor_row ELSE Top.cursor_row - 1]
        /\ (Running /\ Top.kind = "EntriesScreen" /\ Press("g"))
           => stack' = [stack EXCEPT ![Len(stack)].cursor_row = 0]
        /\ (Running /\ Top.kind = "EntriesScreen" /\ Press("G"))
           => stack' = [stack EXCEPT ![Len(stack)].cursor_row = Len(Top.rows) - 1] ]_vars

\* MoveDown was issued on a Habits screen of two rows, whose cursor is on the
\* last row
C15_Witness ==
    /\ last = "CursorDown"
    /\ Top.kind = "HabitsScreen"
    /\ Len(Top.rows) = 2
    /\ Top.cursor_row = 1

\* C15, second case: GoBottom has put the cursor of an Entries screen of two
\* rows on the last row
C15_WitnessBottom ==
    /\ last = "GoBottom"
    /\ Top.kind = "EntriesScreen"
    /\ Len(Top.rows) = 2
    /\ Top.cursor_row = 1

\* C15, third case: MoveUp was issued and the cursor is on row 0 of a screen
\* of two rows
C15_WitnessUp ==
    /\ last = "CursorUp"
    /\ ListScreen(Top)
    /\ Len(Top.rows) = 2
    /\ Top.cursor_row = 0

\* C16: Select (l, enter) on a Categories or Habits screen without rows, and
\* Select on an Entries screen, does nothing: no screen is pushed, the stack is
\* unchanged and the app keeps running.
C16_SelectNoOp ==
    [][ ( /\ Running
          /\ \/ Top.kind \in {"CategoriesScreen", "HabitsScreen"} /\ Len(Top.rows) = 0
             \/ Top.kind = "EntriesScreen"
          /\ (Press("l") \/ Press("enter")) )
        => ( /\ stack' = stack
             /\ status' = "running" ) ]_vars

\* enter was pressed on an Entries screen, which is still the visible screen
C16_Witness ==
    /\ last = "RowSelected"
    /\ status = "running"
    /\ Len(stack) = 3
    /\ Top.kind = "EntriesScreen"

\* C16, second case: Select was issued on a Habits screen without rows
C16_WitnessEmptyHabits ==
    /\ last \in {"Select", "RowSelected"}
    /\ status = "running"
    /\ Len(stack) = 2
    /\ Top.kind = "HabitsScreen"
    /\ Len(Top.rows) = 0

\* C16, third case: Select was issued on the Categories screen of a snapshot
\* without habits
C16_WitnessEmptyCategories ==
    /\ last \in {"Select", "RowSelected"}
    /\ status = "running"
    /\ Len(stack) = 1
    /\ Len(Top.rows) = 0

\* C17: no step changes the loaded snapshot, its habits list, its entries list
\* or the id-to-habit map, so every accessor query returns after the step what
\* it returned before it; and Select issued again right after Back opens the
\* screen that Back closed, with the rows it had when it was first opened.
C17_SnapshotUnchanged ==
    [][ /\ UNCHANGED <<data, habits, entries>>
        /\ get_categories(data') = get_categories(data)
        /\ get_category_stats(data') = get_category_stats(data)
        /\ \A c \in CategoryArgs :
               get_habits_by_category(data', c) = get_habits_by_category(data, c)
        /\ \A id \in HabitIdArgs :
               /\ get_entries_for_habit(entries', id) = get_entries_for_habit(entries, id)
               /\ get_habit_name(habits', id) = get_habit_name(habits, id)
        /\ ( /\ Running
             /\ last = "Back"
             /\ closed.kind \in {"HabitsScreen", "EntriesScreen"}
             /\ (Press("l") \/ Press("enter")) )
           => ( /\ Len(stack') = Len(stack) + 1
                /\ NewTop = closed ) ]_vars

\* Back has closed an Entries screen of two rows that was opened from the
\* second row of a Habits screen, where the cursor still is
C17_Witness ==
    /\ last = "Back"
    /\ status = "running"
    /\ closed.kind = "EntriesScreen"
    /\ Len(closed.rows) = 2
    /\ closed.rows[1] # closed.rows[2]
    /\ Top.kind = "HabitsScreen"
    /\ Top.cursor_row = 1

\* C17, second case: Back has closed a Habits screen of two rows
C17_WitnessHabits ==
    /\ last = "Back"
    /\ closed.kind = "HabitsScreen"
    /\ Len(closed.rows) = 2
    /\ Top.kind = "CategoriesScreen"

\* C18: when several habits of the snapshot have the same id, the id-to-habit
\* map holds the last of them in snapshot order, get_habit_name(id) returns
\* that habit's name ("Unknown" when it has none) and the Entries screen for
\* that id has that name as its habit name.
C18_LastHabitWins ==
    /\ DOMAIN habits = SnapshotHabitIds
    /\ \A id \in SnapshotHabitIds :
           /\ habits[id] = LastHabitWithId(id)
           /\ EntriesScreen(habits, entries, id).habit_name = NameOf(LastHabitWithId(id))
    /\ (result.op = "get_habit_name" /\ result.arg \in SnapshotHabitIds) =>
           result.value = NameOf(LastHabitWithId(result.arg))

\* get_habit_name was called for an id that two habits have, the first of
\* them named and the last one without a name
C18_Witness ==
    /\ result.op = "get_habit_name"
    /\ Len(SnapshotHabits) = 2
    /\ SnapshotHabits[1].id = result.arg
    /\ SnapshotHabits[2].id = result.arg
    /\ "name" \in DOMAIN SnapshotHabits[1]
    /\ "name" \notin DOMAIN SnapshotHabits[2]
    /\ result.value = Unknown
    /\ result.value # NameOf(SnapshotHabits[1])

\* the stack without the Help screen on top of it, if there is one
BelowHelp(st) ==
    IF st # << >> /\ st[Len(st)].kind = "HelpScreen" THEN SubSeq(st, 1, Len(st) - 1) ELSE st

\* [Categories], [Categories, Habits(c)] or [Categories, Habits(c), Entries(h)],
\* c being the category under the cursor of the Categories screen and h the
\* habit id under the cursor of the Habits screen
ListScreens(st) ==
    /\ Len(st) \in 1..3
    /\ st[1].kind = "CategoriesScreen"
    /\ Len(st) >= 2 =>
           /\ st[2].kind = "HabitsScreen"
           /\ st[2].category = st[1].rows[st[1].cursor_row + 1].key
    /\ Len(st) >= 3 =>
           /\ st[3].kind = "EntriesScreen"
           /\ st[3].habit_id = st[2].rows[st[2].cursor_row + 1].key

\* C19: until the app exits the screen stack is well-formed: it starts as
\* [Categories] and is always [Categories], [Categories, Habits(c)] or
\* [Categories, Habits(c), Entries(h)], with at most one Help screen, which is
\* then on top; the Categories screen is the bottom element and the depth is
\* at most 4.
C19_StackWellFormed ==
    /\ last = "none" => (Len(stack) = 1 /\ stack[1].kind = "CategoriesScreen")
    /\ status # "exited" =>
           /\ ListScreens(BelowHelp(stack))
           /\ stack[1].kind = "CategoriesScreen"
           /\ Cardinality({ i \in 1..Len(stack) : stack[i].kind = "HelpScreen" }) <= 1
           /\ \A i \in 1..(Len(stack) - 1) : stack[i].kind # "HelpScreen"
           /\ Len(stack) <= 4

\* the Help screen was opened on an Entries screen: the stack has depth 4
C19_Witness ==
    /\ last = "Help"
    /\ status = "running"
    /\ Len(stack) = 4
    /\ stack[1].kind = "CategoriesScreen"
    /\ stack[2].kind = "HabitsScreen"
    /\ stack[3].kind = "EntriesScreen"
    /\ stack[4].kind = "HelpScreen"

\* C20: one Select pushes exactly one screen: on a Categories or Habits screen
\* that has rows, the key l and the key enter each put exactly one new screen
\* on top of the unchanged stack, and Back issued right after it restores the
\* stack in which Select was issued.
C20_SelectPushesOne ==
    [][ /\ \A key \in {"l", "enter"} :
               ( /\ Running
                 /\ Top.kind \in {"CategoriesScreen", "HabitsScreen"}
                 /\ Len(Top.rows) > 0
                 /\ Press(key) )
               => ( /\ stack' = Append(stack, NewTop)
                    /\ NewTop.kind \in {"HabitsScreen", "EntriesScreen"}
                    /\ ret'[Len(stack')] = stack )
        /\ ( /\ Running
             /\ last \in {"Select", "RowSelected"}
             /\ Top.kind \in {"HabitsScreen", "EntriesScreen"}
             /\ (Press("h") \/ Press("escape")) )
           => ( /\ Len(stack') = Len(stack) - 1
                /\ stack' = ret[Len(stack)]
                /\ status' = "running" ) ]_vars

\* enter on the Categories screen has pushed one Habits screen: the stack is
\* the stack of that moment and the Habits screen
C20_Witness ==
    /\ last = "RowSelected"
    /\ status = "running"
    /\ Len(stack) = 2
    /\ Top.kind = "HabitsScreen"
    /\ Len(Top.rows) > 0
    /\ ret[2] = << stack[1] >>

\* C20, second case: l on a Habits screen has pushed one Entries screen
C20_WitnessEntries ==
    /\ last = "Select"
    /\ Len(stack) = 3
    /\ Top.kind = "EntriesScreen"
    /\ ret[3] = << stack[1], stack[2] >>

\* C21: the Habits screen opened from a row of the Categories screen has as
\* many rows as the habit count shown in that row, and the entry count shown
\* in each of its rows is the number of entries of the snapshot whose habitId
\* is the id of that row.
C21_HabitsMatchCount ==
    (Len(stack) >= 2 /\ stack[2].kind = "HabitsScreen") =>
        /\ Str(Len(stack[2].rows)) = stack[1].rows[stack[1].cursor_row + 1].cells[2]
        /\ \A r \in 1..Len(stack[2].rows) :
               stack[2].rows[r].cells[3] = Str(Cardinality(EntriesOf(stack[2].rows[r].key)))

\* C22: an Entries screen on the stack is for the id of a habit of the
\* snapshot whose category is that of the Habits screen beneath it, and a
\* Habits screen on the stack is for a category of the snapshot, which the
\* Categories screen lists.
C22_ScreensOfSnapshot ==
    \A i \in 1..Len(stack) :
        /\ stack[i].kind = "HabitsScreen" =>
               /\ stack[i].category \in SnapshotCategories
               /\ \E r \in 1..Len(stack[1].rows) : stack[1].rows[r].key = stack[i].category
        /\ stack[i].kind = "EntriesScreen" =>
               /\ stack[i].habit_id \in SnapshotHabitIds
               /\ stack[i - 1].kind = "HabitsScreen"
               /\ \E k \in HabitsIn(stack[i - 1].category) :
                      SnapshotHabits[k].id = stack[i].habit_id

\* Select has opened the Entries screen of a habit of a snapshot that has a
\* second habit, of another id and another category
C22_Witness ==
    /\ last \in {"Select", "RowSelected"}
    /\ Len(stack) = 3
    /\ Top.kind = "EntriesScreen"
    /\ Cardinality(SnapshotCategories) = 2
    /\ Cardinality(SnapshotHabitIds) = 2

\* C22, second case: Select has opened the Habits screen of "uncategorized"
C22_WitnessUncategorized ==
    /\ last \in {"Select", "RowSelected"}
    /\ Len(stack) = 2
    /\ Top.kind = "HabitsScreen"
    /\ Top.category = uncategorized

====
